---- MODULE Spec2Model ----
(***************************************************************************)
(* Reaction generation and filtering of HiPRGen (reaction_filter.py and    *)
(* its predecessor reaction_gen.py): the decision tree evaluator, the      *)
(* filter workers and the dispatcher that collates their output into the   *)
(* reaction network database.                                              *)
(*                                                                         *)
(* Free energies are numbers of tenths of an eV; rates are in billionths   *)
(* of the maximal rate kT/h.  A Python float keeps 53 significant bits and *)
(* every addition rounds its result to them; the floats of the model keep  *)
(* FloatBits significant bits.                                             *)
(*                                                                         *)
(* Queues: a put is in the queue by the time the process that made it is   *)
(* no longer alive (a process joins the feeder threads of its queues when  *)
(* it ends); empty() and get() of concurrent processes interleave freely,  *)
(* and a get with a timeout may run out of time on a queue that is not     *)
(* empty (comment at reaction_filter.py:257).                              *)
(* The names put on the bucket queue before the workers are started are in *)
(* it when they start.                                                     *)
(***************************************************************************)
EXTENDS Integers, Sequences, FiniteSets, Bags, TLC

VARIABLES
    \* ---- dispatcher arguments (fixed during a run) ----
    number_of_processes,   \* number of worker processes
    decision_tree,         \* reaction_decision_tree
    logging_decision_tree, \* logging_decision_tree
    bucket_db,             \* sequence of tables, each a sequence of rows
    \* ---- channels ----
    table_queue,           \* names (indices into bucket_db) of the buckets
    reaction_queue,        \* reactions kept by the filter tree
    logging_queue,         \* (reaction, decision_path) kept by the logging tree
    \* ---- worker processes ----
    processes,             \* pid -> the worker's control state and locals
    \* ---- dispatcher (collator) ----
    c_pc,                  \* position of the dispatcher
    living_children,
    reaction_index,
    reactions,             \* rows of the reactions table (uncommitted included)
    metadata,              \* rows of the metadata table
    committed,             \* number of reaction rows covered by the last commit
    report,                \* what the report generator has emitted
    \* ---- history ----
    dequeued,              \* records taken from the reaction queue, in order
    takers,                \* bucket -> sequence of pids that took it
    \* ---- a single evaluation of run_decision_tree ----
    t_pc, t_tree, t_reaction, t_out

cvars == <<number_of_processes, decision_tree, logging_decision_tree, bucket_db>>
qvars == <<table_queue, reaction_queue, logging_queue>>
dvars == <<c_pc, living_children, reaction_index, reactions, metadata,
           committed, report, dequeued>>
tvars == <<t_pc, t_tree, t_reaction, t_out>>
vars  == <<cvars, qvars, processes, dvars, takers, tvars>>

----------------------------------------------------------------------------
(* Bounds of the model *)

\* number_of_processes ranges over 1..MaxProcs
MaxProcs == 2
\* the bucket database holds 0..MaxBuckets tables
MaxBuckets == 2
\* commit_freq argument of the dispatcher (default 1000)
commit_freq == 2

----------------------------------------------------------------------------
(* Species and parameters *)

\* the sentinel for "no second species"
NoSpecies == -1

\* get_free_energy() of mol_entries[0..3], in tenths of an eV
mol_entries == <<-10, -3, -3, 0>>

FreeEnergy(index) == mol_entries[index + 1]

\* the significant bits of a float (53 in Python)
FloatBits == 3

Magnitude(x) == IF x < 0 THEN -x ELSE x

\* the distance between neighbouring floats at the magnitude m
RECURSIVE Spacing(_)
Spacing(m) == IF m < 2^FloatBits THEN 1 ELSE 2 * Spacing(m \div 2)

\* the float nearest to x, the one with the even significand on a tie
Round[x \in Int] ==
    LET m   == Magnitude(x)
        u   == Spacing(m)
        q   == m \div u
        r   == m % u
        mag == IF 2 * r > u \/ (2 * r = u /\ q % 2 = 1)
               THEN (q + 1) * u ELSE q * u
    IN  IF x < 0 THEN -mag ELSE mag

\* a + b and a - b on floats
FloatAdd(a, b) == Round[a + b]
FloatSub(a, b) == Round[a - b]

\* partial(dG_above_threshold, 0.5), in tenths of an eV
Threshold == 5

\* kT / PLANCK, in billionths of itself
max_rate == 1000000000

\* max_rate * math.exp(- dG / kT) at room temperature (kT = 0.02569 eV),
\* rounded down to billionths of max_rate; dG in tenths of an eV, dG >= 0
ExpDecay(dG) ==
    CASE dG = 0 -> max_rate
      [] dG = 1 -> 20400936
      [] dG = 2 -> 416198
      [] dG = 3 -> 8490
      [] dG = 4 -> 173
      [] dG = 5 -> 3
      [] OTHER  -> 0

\* the rate without the exponential
default_rate_flat(dG) == max_rate

default_rate(dG) ==
    IF dG < 0 THEN max_rate ELSE ExpDecay(dG)

----------------------------------------------------------------------------
(* Reaction records.  A key of the dict that is not set is the empty       *)
(* sequence, a key that is set is a one-element sequence.  The key         *)
(* 'reverse' refers to the paired record: reverse holds what a question    *)
(* reads through that reference, the atom_map key of the paired record as  *)
(* it is at the time of the call.                                          *)

CountSpecies(slot) ==
    Cardinality({k \in 1..Len(slot) : slot[k] # NoSpecies})

\* the record with the lengths of its slots as the two counts
MakeReactionSlotLengths(reactants, products) ==
    [reactants           |-> reactants,
     products            |-> products,
     number_of_reactants |-> Len(reactants),
     number_of_products  |-> Len(products),
     dG                  |-> <<>>,
     rate                |-> <<>>,
     atom_map            |-> <<>>,
     reverse             |-> <<>>]

MakeReaction(reactants, products) ==
    [reactants           |-> reactants,
     products            |-> products,
     number_of_reactants |-> CountSpecies(reactants),
     number_of_products  |-> CountSpecies(products),
     dG                  |-> <<>>,
     rate                |-> <<>>,
     atom_map            |-> <<>>,
     reverse             |-> <<>>]

\* the reverse record built without its 'reverse' key
MakeReverseUnlinked(reaction) ==
    [reactants           |-> reaction.products,
     products            |-> reaction.reactants,
     number_of_reactants |-> reaction.number_of_products,
     number_of_products  |-> reaction.number_of_reactants,
     dG                  |-> <<>>,
     rate                |-> <<>>,
     atom_map            |-> <<>>,
     reverse             |-> <<>>]

MakeReverse(reaction) ==
    [reactants           |-> reaction.products,
     products            |-> reaction.reactants,
     number_of_reactants |-> reaction.number_of_products,
     number_of_products  |-> reaction.number_of_reactants,
     dG                  |-> <<>>,
     rate                |-> <<>>,
     atom_map            |-> <<>>,
     reverse             |-> <<reaction.atom_map>>]

\* reaction['reverse'] = reverse_reaction
Link(reaction, reverse_reaction) ==
    [reaction EXCEPT !.reverse = <<reverse_reaction.atom_map>>]

\* the record as it is once its paired record has become partner: the
\* reference of the key 'reverse' is followed anew at every read
Seen(reaction, partner) ==
    IF reaction.reverse = <<>> THEN reaction ELSE Link(reaction, partner)

----------------------------------------------------------------------------
(* Questions *)

QdG(threshold) == [name |-> "dG_above_threshold", threshold |-> threshold]
QTrue          == [name |-> "default_true", threshold |-> 0]
QMap           == [name |-> "atom_mapper", threshold |-> 0]

\* for index in reaction['reactants']: if index != -1: dG -= ...
RECURSIVE SubtractFreeEnergies(_, _, _)
SubtractFreeEnergies(dG, slot, k) ==
    IF k > Len(slot) THEN dG
    ELSE SubtractFreeEnergies(
             IF slot[k] # NoSpecies THEN FloatSub(dG, FreeEnergy(slot[k])) ELSE dG,
             slot, k + 1)

\* for index in reaction['products']: if index != -1: dG += ...
RECURSIVE AddFreeEnergies(_, _, _)
AddFreeEnergies(dG, slot, k) ==
    IF k > Len(slot) THEN dG
    ELSE AddFreeEnergies(
             IF slot[k] # NoSpecies THEN FloatAdd(dG, FreeEnergy(slot[k])) ELSE dG,
             slot, k + 1)

dG_above_threshold(threshold, reaction) ==
    LET Compare[dG \in Int] ==
            IF dG > threshold
            THEN [answer |-> TRUE, reaction |-> reaction]
            ELSE [answer   |-> FALSE,
                  reaction |-> [reaction EXCEPT !.dG = <<dG>>,
                                                !.rate = <<default_rate(dG)>>]]
    IN  Compare[AddFreeEnergies(
                    SubtractFreeEnergies(0, reaction.reactants, 1),
                    reaction.products, 1)]

default_true(reaction) == [answer |-> TRUE, reaction |-> reaction]

\* The atom mapping question.  The record keeps its mapping once it has
\* one; a record without one takes the mapping of its paired record, turned
\* round, when that record has one; only otherwise is the mapping computed.
\* The question caches and answers false.
atom_mapper(reaction) ==
    [answer   |-> FALSE,
     reaction |->
        IF reaction.atom_map # <<>> THEN reaction
        ELSE IF reaction.reverse # <<>> /\ reaction.reverse[1] # <<>>
        THEN [reaction EXCEPT !.atom_map = <<"inverted">>]
        ELSE [reaction EXCEPT !.atom_map = <<"computed">>]]

\* question(reaction, mol_entries, params)
Ask(question, reaction) ==
    CASE question.name = "dG_above_threshold" ->
            dG_above_threshold(question.threshold, reaction)
      [] question.name = "atom_mapper" -> atom_mapper(reaction)
      [] OTHER -> default_true(reaction)

----------------------------------------------------------------------------
(* Decision trees *)

KEEP    == [type |-> "Terminal", value |-> "KEEP"]
DISCARD == [type |-> "Terminal", value |-> "DISCARD"]
NoneNode == [type |-> "None"]

Edge(question, new_node) == [question |-> question, new_node |-> new_node]
ListNode(edges) == [type |-> "list", edges |-> edges]

standard_decision_tree ==
    ListNode(<<Edge(QdG(Threshold), DISCARD), Edge(QTrue, KEEP)>>)

\* entries of a decision pathway
PathQuestion(question) ==
    [kind |-> "question", name |-> question.name, threshold |-> question.threshold]
PathTerminal(node) ==
    [kind |-> "terminal", name |-> node.value, threshold |-> 0]

\* the for loop over one node, without the break: the last question that
\* answers true wins
RECURSIVE ScanNodeNoBreak(_, _, _, _, _)
ScanNodeNoBreak(edges, i, reaction, answers, hit) ==
    IF i > Len(edges)
    THEN [hit |-> hit, reaction |-> reaction, answers |-> answers]
    ELSE LET a == Ask(edges[i].question, reaction)
         IN  ScanNodeNoBreak(edges, i + 1, a.reaction,
                             Append(answers, a.answer),
                             IF a.answer THEN i ELSE hit)

\* the for loop over one node: questions are asked in list order from the
\* i-th on, up to the first that answers true.  hit is its position (0 when
\* the list is exhausted), answers the answers given so far.
RECURSIVE ScanNode(_, _, _, _, _)
ScanNode(edges, i, reaction, answers, hit) ==
    IF i > Len(edges)
    THEN [hit |-> hit, reaction |-> reaction, answers |-> answers]
    ELSE LET a == Ask(edges[i].question, reaction)
         IN  IF a.answer
             THEN [hit |-> i, reaction |-> a.reaction,
                   answers |-> Append(answers, TRUE)]
             ELSE ScanNode(edges, i + 1, a.reaction,
                           Append(answers, FALSE), hit)

\* the calls made at the node reached by path, as events
CallEvents(path, answers) ==
    [k \in 1..Len(answers) |-> [node |-> path, index |-> k, answer |-> answers[k]]]

\* what is left of run_decision_tree once node is no list, with a node
\* that is no Terminal read as DISCARD
LeaveLoopSilent(node, reaction, pathway, calls) ==
    [outcome  |-> IF node.type = "Terminal" /\ node.value = "KEEP"
                  THEN "True" ELSE "False",
     reaction |-> reaction,
     pathway  |-> IF node.type = "Terminal"
                  THEN Append(pathway, PathTerminal(node)) ELSE pathway,
     calls    |-> calls]

\* what is left of run_decision_tree once node is no list
LeaveLoop(node, reaction, pathway, calls) ==
    IF node.type = "Terminal"
    THEN [outcome  |-> IF node = KEEP THEN "True" ELSE "False",
          reaction |-> reaction,
          pathway  |-> Append(pathway, PathTerminal(node)),
          calls    |-> calls]
    ELSE [outcome  |-> "raise",
          reaction |-> reaction,
          pathway  |-> pathway,
          calls    |-> calls]

\* the while loop of run_decision_tree from node on; path is the position
\* of node in the tree (the edges followed from the root)
RECURSIVE Walk(_, _, _, _, _)
Walk(node, path, reaction, pathway, calls) ==
    IF node.type = "list"
    THEN LET s == ScanNode(node.edges, 1, reaction, <<>>, 0)
             next_node == IF s.hit = 0 THEN NoneNode
                          ELSE node.edges[s.hit].new_node
         IN  Walk(next_node,
                  Append(path, s.hit),
                  s.reaction,
                  IF s.hit = 0 THEN pathway
                  ELSE Append(pathway, PathQuestion(node.edges[s.hit].question)),
                  calls \o CallEvents(path, s.answers))
    ELSE LeaveLoop(node, reaction, pathway, calls)

\* run_decision_tree(reaction, mol_entries, params, decision_tree,
\* decision_pathway): outcome is "True", "False" or "raise"; reaction is the
\* record as the questions left it; pathway is what was appended to
\* decision_pathway; calls lists the questions called.
run_decision_tree(reaction, tree) ==
    Walk(tree, <<>>, reaction, <<>>, <<>>)

----------------------------------------------------------------------------
(* Inputs *)

\* rows of the bucket tables
Rows == << <<0, NoSpecies>>, <<1, NoSpecies>>, <<2, NoSpecies>>, <<0, 3>>,
          <<3, NoSpecies>>, <<0, 1>>, <<0, 2>> >>

\* a tree that sets dG and rate before it keeps, two levels deep
nested_tree ==
    ListNode(<<Edge(QdG(Threshold), DISCARD),
               Edge(QdG(-Threshold), ListNode(<<Edge(QdG(0), DISCARD),
                                                Edge(QTrue, KEEP)>>)),
               Edge(QTrue, KEEP)>>)

\* the standard tree with twice the threshold
lenient_tree ==
    ListNode(<<Edge(QdG(2 * Threshold), DISCARD), Edge(QTrue, KEEP)>>)

\* a tree that is not total: no question answers true when dG <= Threshold
partial_tree ==
    ListNode(<<Edge(QdG(Threshold), DISCARD)>>)

\* a tree whose inner node is not total
partial_inner_tree ==
    ListNode(<<Edge(QdG(0), ListNode(<<Edge(QdG(Threshold), KEEP)>>)),
               Edge(QdG(-Threshold), DISCARD),
               Edge(QTrue, KEEP)>>)

\* a logging tree: log the reactions that are not downhill
log_not_downhill_tree ==
    ListNode(<<Edge(QdG(-1), KEEP), Edge(QTrue, DISCARD)>>)

discard_all_tree == ListNode(<<Edge(QTrue, DISCARD)>>)
keep_all_tree    == ListNode(<<Edge(QTrue, KEEP)>>)

\* a tree that keeps every reaction; dG_above_threshold leaves dG and rate
\* only in the records that are not above the threshold
keep_above_tree ==
    ListNode(<<Edge(QdG(Threshold), KEEP), Edge(QTrue, KEEP)>>)

\* the standard tree with the atom mapping made for what the threshold lets
\* through
mapped_tree ==
    ListNode(<<Edge(QdG(Threshold), DISCARD),
               Edge(QMap, DISCARD),
               Edge(QTrue, KEEP)>>)

\* a logging tree that maps the atoms and logs every reaction
log_mapped_tree ==
    ListNode(<<Edge(QMap, DISCARD), Edge(QTrue, KEEP)>>)

\* a logging tree: log the reactions with -0.1 < dG <= 0.8
log_band_tree ==
    ListNode(<<Edge(QdG(8), DISCARD), Edge(QdG(-1), KEEP), Edge(QTrue, DISCARD)>>)


\* the table of the k-th bucket
Table(k) ==
    CASE k = 1 -> <<Rows[1], Rows[2]>>
      [] k = 2 -> <<Rows[2], Rows[3]>>
      [] k = 3 -> <<Rows[4]>>
      [] OTHER -> <<>>

BucketDB(n) == [k \in 1..n |-> Table(k)]

FilterTrees  == {standard_decision_tree, discard_all_tree, partial_tree,
                 keep_above_tree}
LoggingTrees == {DISCARD, log_not_downhill_tree}

----------------------------------------------------------------------------
(* Worker processes: reaction_filter *)

Pids == 0..(number_of_processes - 1)

NoReaction == MakeReaction(<<NoSpecies, NoSpecies>>, <<NoSpecies, NoSpecies>>)

\* a worker between buckets.  put_forward and put_reverse tell where the
\* dict of this combination went when it was put on the reaction queue: seq
\* is its number among all the puts on that queue, record the dict as it
\* was at the put.
Idle(pc) ==
    [pc                       |-> pc,
     table                    |-> 0,
     i                        |-> 0,
     j                        |-> 0,
     reaction                 |-> NoReaction,
     reverse_reaction         |-> NoReaction,
     decision_pathway_forward |-> <<>>,
     decision_pathway_reverse |-> <<>>,
     put_forward              |-> <<>>,
     put_reverse              |-> <<>>]

\* the worker at the combination (i, j) of its bucket, about to evaluate
\* the filter tree on the forward reaction
AtCombination(table, i, j) ==
    LET reaction == MakeReaction(bucket_db[table][i], bucket_db[table][j])
        reverse_reaction == MakeReverse(reaction)
    IN  [pc                       |-> "filter_forward",
         table                    |-> table,
         i                        |-> i,
         j                        |-> j,
         reaction                 |-> Link(reaction, reverse_reaction),
         reverse_reaction         |-> reverse_reaction,
         decision_pathway_forward |-> <<>>,
         decision_pathway_reverse |-> <<>>,
         put_forward              |-> <<>>,
         put_reverse              |-> <<>>]

\* the loop of itertools.product: after row i has met the last row, row
\* i + 1 meets every row from the first on
AfterCombinationProduct(table, i, j) ==
    LET n == Len(bucket_db[table])
    IN  IF j < n THEN AtCombination(table, i, j + 1)
        ELSE IF i + 1 < n THEN AtCombination(table, i + 1, 1)
        ELSE Idle("empty")

\* the worker after the combination (i, j): itertools.combinations yields
\* the pairs of positions i < j in lexicographic order
AfterCombination(table, i, j) ==
    LET n == Len(bucket_db[table])
    IN  IF j < n THEN AtCombination(table, i, j + 1)
        ELSE IF i + 1 < n THEN AtCombination(table, i + 1, i + 2)
        ELSE Idle("empty")

\* a liveness test that only knows the processes that returned
AliveUnlessReturned(p) == processes[p].pc # "exited"

\* processes[pid].is_alive()
Alive(p) == processes[p].pc \notin {"exited", "raised", "crashed"}

\* while table_queue.empty(): the test without its not
CheckEmptyInverted(p) ==
    /\ processes[p].pc \in {"empty", "recheck"}
    /\ processes' = [processes EXCEPT ![p].pc =
                        IF table_queue = <<>> THEN "get" ELSE "exited"]
    /\ UNCHANGED <<cvars, qvars, dvars, takers, tvars>>

\* while not table_queue.empty()
CheckEmpty(p) ==
    /\ processes[p].pc \in {"empty", "recheck"}
    /\ processes' = [processes EXCEPT ![p].pc =
                        IF table_queue = <<>> THEN "exited" ELSE "get"]
    /\ UNCHANGED <<cvars, qvars, dvars, takers, tvars>>

\* a get that reads the name of the bucket and leaves it in the queue
GetTableKeepsBucket(p) ==
    /\ processes[p].pc = "get"
    /\ table_queue # <<>>
    /\ processes' = [processes EXCEPT ![p] =
                        IF Len(bucket_db[Head(table_queue)]) >= 2
                        THEN AtCombination(Head(table_queue), 1, 2)
                        ELSE Idle("empty")]
    /\ takers' = [takers EXCEPT ![Head(table_queue)] = Append(@, p)]
    /\ UNCHANGED <<cvars, qvars, dvars, tvars>>

\* table = table_queue.get(timeout=0.01); the bucket is read and the loop
\* over its combinations entered
GetTable(p) ==
    /\ processes[p].pc = "get"
    /\ table_queue # <<>>
    /\ processes' = [processes EXCEPT ![p] =
                        IF Len(bucket_db[Head(table_queue)]) >= 2
                        THEN AtCombination(Head(table_queue), 1, 2)
                        ELSE Idle("empty")]
    /\ table_queue' = Tail(table_queue)
    /\ takers' = [takers EXCEPT ![Head(table_queue)] = Append(@, p)]
    /\ UNCHANGED <<cvars, reaction_queue, logging_queue, dvars, tvars>>

\* the get runs out of time (the queue is empty, or it is not and the
\* other readers kept this one waiting): except: continue.  The worker is
\* at the loop test again ("recheck": at the test after a failed get).
GetTimeout(p) ==
    /\ processes[p].pc = "get"
    /\ processes' = [processes EXCEPT ![p].pc = "recheck"]
    /\ UNCHANGED <<cvars, qvars, dvars, takers, tvars>>

\* what reaction_queue.put(reaction) leaves in the worker
PutAt(reaction) ==
    <<[seq    |-> Len(dequeued) + Len(reaction_queue) + 1,
       record |-> reaction]>>

\* the dict that was put has not been taken from the queue
InFlight(put) == put # <<>> /\ put[1].seq > Len(dequeued)

\* put() hands the dict itself to the feeder thread of the queue, which
\* pickles it at a time of its own.  When the worker has changed the dict
\* that an earlier put refers to into reaction, the queue holds it as it was
\* (it was pickled before the change) or as it is now (it was not).
AsPickled(queue, put, reaction) ==
    {queue} \cup
    (IF InFlight(put)
     THEN {[queue EXCEPT ![put[1].seq - Len(dequeued)] = reaction]}
     ELSE {})

\* if run_decision_tree(reaction, ..., decision_tree,
\* decision_pathway_forward): reaction_queue.put(reaction)
FilterForward(p) ==
    /\ processes[p].pc = "filter_forward"
    /\ \E out \in {run_decision_tree(processes[p].reaction, decision_tree)} :
           IF out.outcome = "raise"
           THEN /\ processes' = [processes EXCEPT ![p] = Idle("raised")]
                /\ UNCHANGED reaction_queue
           ELSE /\ processes' = [processes EXCEPT
                       ![p].pc = "filter_reverse",
                       ![p].reaction = out.reaction,
                       ![p].reverse_reaction = Seen(@, out.reaction),
                       ![p].decision_pathway_forward = out.pathway,
                       ![p].put_forward = IF out.outcome = "True"
                                          THEN PutAt(out.reaction) ELSE <<>>]
                /\ reaction_queue' = IF out.outcome = "True"
                                     THEN Append(reaction_queue, out.reaction)
                                     ELSE reaction_queue
    /\ UNCHANGED <<cvars, table_queue, logging_queue, dvars, takers, tvars>>

\* the reverse reaction put at the head of the queue
FilterReversePutsAhead(p) ==
    /\ processes[p].pc = "filter_reverse"
    /\ \E out \in {run_decision_tree(processes[p].reverse_reaction, decision_tree)} :
           IF out.outcome = "raise"
           THEN /\ processes' = [processes EXCEPT ![p] = Idle("raised")]
                /\ UNCHANGED reaction_queue
           ELSE /\ processes' = [processes EXCEPT
                       ![p].pc = "log_forward",
                       ![p].reverse_reaction = out.reaction,
                       ![p].reaction = Seen(@, out.reaction),
                       ![p].decision_pathway_reverse = out.pathway,
                       ![p].put_reverse = IF out.outcome = "True"
                                          THEN PutAt(out.reaction) ELSE <<>>]
                /\ reaction_queue' = IF out.outcome = "True"
                                     THEN <<out.reaction>> \o reaction_queue
                                     ELSE reaction_queue
    /\ UNCHANGED <<cvars, table_queue, logging_queue, dvars, takers, tvars>>

\* if run_decision_tree(reverse_reaction, ..., decision_tree,
\* decision_pathway_reverse): reaction_queue.put(reverse_reaction)
FilterReverse(p) ==
    /\ processes[p].pc = "filter_reverse"
    /\ \E out \in {run_decision_tree(processes[p].reverse_reaction, decision_tree)} :
           IF out.outcome = "raise"
           THEN /\ processes' = [processes EXCEPT ![p] = Idle("raised")]
                /\ UNCHANGED reaction_queue
           ELSE /\ processes' = [processes EXCEPT
                       ![p].pc = "log_forward",
                       ![p].reverse_reaction = out.reaction,
                       ![p].reaction = Seen(@, out.reaction),
                       ![p].decision_pathway_reverse = out.pathway,
                       ![p].put_reverse = IF out.outcome = "True"
                                          THEN PutAt(out.reaction) ELSE <<>>]
                /\ reaction_queue' = IF out.outcome = "True"
                                     THEN Append(reaction_queue, out.reaction)
                                     ELSE reaction_queue
    /\ UNCHANGED <<cvars, table_queue, logging_queue, dvars, takers, tvars>>

\* the logging of the forward reaction decided by the filter tree
LogForwardByFilterTree(p) ==
    /\ processes[p].pc = "log_forward"
    /\ \E out \in {run_decision_tree(processes[p].reaction, decision_tree)} :
        /\ reaction_queue' \in AsPickled(reaction_queue,
                                          processes[p].put_forward, out.reaction)
        /\ IF out.outcome = "raise"
           THEN /\ processes' = [processes EXCEPT ![p] = Idle("raised")]
                /\ UNCHANGED logging_queue
           ELSE /\ processes' = [processes EXCEPT
                       ![p].pc = "log_reverse",
                       ![p].reaction = out.reaction,
                       ![p].reverse_reaction = Seen(@, out.reaction)]
                /\ logging_queue' =
                       IF out.outcome = "True"
                       THEN Append(logging_queue,
                                   [reaction |-> out.reaction,
                                    decision_path |->
                                        processes[p].decision_pathway_forward])
                       ELSE logging_queue
    /\ UNCHANGED <<cvars, table_queue, dvars, takers, tvars>>

\* if run_decision_tree(reaction, ..., logging_decision_tree):
\*     logging_queue.put((reaction, decision_pathway_forward))
LogForward(p) ==
    /\ processes[p].pc = "log_forward"
    /\ \E out \in {run_decision_tree(processes[p].reaction, logging_decision_tree)} :
        /\ reaction_queue' \in AsPickled(reaction_queue,
                                          processes[p].put_forward, out.reaction)
        /\ IF out.outcome = "raise"
           THEN /\ processes' = [processes EXCEPT ![p] = Idle("raised")]
                /\ UNCHANGED logging_queue
           ELSE /\ processes' = [processes EXCEPT
                       ![p].pc = "log_reverse",
                       ![p].reaction = out.reaction,
                       ![p].reverse_reaction = Seen(@, out.reaction)]
                /\ logging_queue' =
                       IF out.outcome = "True"
                       THEN Append(logging_queue,
                                   [reaction |-> out.reaction,
                                    decision_path |->
                                        processes[p].decision_pathway_forward])
                       ELSE logging_queue
    /\ UNCHANGED <<cvars, table_queue, dvars, takers, tvars>>

\* if run_decision_tree(reverse_reaction, ..., logging_decision_tree):
\*     logging_queue.put((reverse_reaction, decision_pathway_reverse))
\* and on to the next combination, or to the next bucket
LogReverse(p) ==
    /\ processes[p].pc = "log_reverse"
    /\ \E out \in {run_decision_tree(processes[p].reverse_reaction,
                                      logging_decision_tree)} :
        /\ reaction_queue' \in AsPickled(reaction_queue,
                                          processes[p].put_reverse, out.reaction)
        /\ IF out.outcome = "raise"
           THEN /\ processes' = [processes EXCEPT ![p] = Idle("raised")]
                /\ UNCHANGED logging_queue
           ELSE /\ processes' = [processes EXCEPT ![p] =
                       AfterCombination(processes[p].table, processes[p].i,
                                        processes[p].j)]
                /\ logging_queue' =
                       IF out.outcome = "True"
                       THEN Append(logging_queue,
                                   [reaction |-> out.reaction,
                                    decision_path |->
                                        processes[p].decision_pathway_reverse])
                       ELSE logging_queue
    /\ UNCHANGED <<cvars, table_queue, dvars, takers, tvars>>

\* the process dies abnormally while it holds a bucket
Crash(p) ==
    /\ processes[p].pc \in {"filter_forward", "filter_reverse",
                            "log_forward", "log_reverse"}
    /\ processes' = [processes EXCEPT ![p] = Idle("crashed")]
    /\ UNCHANGED <<cvars, qvars, dvars, takers, tvars>>


WorkerNext(p) ==
    \/ CheckEmpty(p)
    \/ GetTable(p)
    \/ GetTimeout(p)
    \/ FilterForward(p)
    \/ FilterReverse(p)
    \/ LogForward(p)
    \/ LogReverse(p)

----------------------------------------------------------------------------
(* The dispatcher *)

list_or(a_list) == TRUE \in a_list

\* [processes[pid].is_alive() for pid in processes], as the set of its values
living_bools == {Alive(p) : p \in Pids}

HasKeys(reaction) == Len(reaction.rate) = 1 /\ Len(reaction.dG) = 1

\* the parameters of insert_reaction
ReactionRow(index, reaction) ==
    [reaction_id         |-> index,
     number_of_reactants |-> reaction.number_of_reactants,
     number_of_products  |-> reaction.number_of_products,
     reactant_1          |-> reaction.reactants[1],
     reactant_2          |-> reaction.reactants[2],
     product_1           |-> reaction.products[1],
     product_2           |-> reaction.products[2],
     rate                |-> reaction.rate[1],
     dG                  |-> reaction.dG[1]]

\* the metadata row with the counts as they are, without the + 1
MetadataRowPlain(index) ==
    [number_of_species   |-> Len(mol_entries),
     number_of_reactions |-> index]

\* the parameters of insert_metadata; the factors are passed through
MetadataRow(index) ==
    [number_of_species   |-> Len(mol_entries) + 1,
     number_of_reactions |-> index + 1]

\* while living_children: the loop of reaction_gen.py, which looks at no queue
LoopTestLivingOnly ==
    /\ c_pc = "while"
    /\ c_pc' = IF living_children THEN "poll" ELSE "metadata"
    /\ UNCHANGED <<cvars, qvars, processes, living_children, reaction_index,
                   reactions, metadata, committed, report, dequeued, takers,
                   tvars>>

\* while ( living_children or ...
LoopTestLiving ==
    /\ c_pc = "while"
    /\ c_pc' = IF living_children THEN "poll" ELSE "while_reactions"
    /\ UNCHANGED <<cvars, qvars, processes, living_children, reaction_index,
                   reactions, metadata, committed, report, dequeued, takers,
                   tvars>>

\* the loop condition without its reaction_queue.empty() disjunct
LoopTestReactionsSkipped ==
    /\ c_pc = "while_reactions"
    /\ c_pc' = "while_logging"
    /\ UNCHANGED <<cvars, qvars, processes, living_children, reaction_index,
                   reactions, metadata, committed, report, dequeued, takers,
                   tvars>>

\* ... not reaction_queue.empty() or ...
LoopTestReactions ==
    /\ c_pc = "while_reactions"
    /\ c_pc' = IF reaction_queue # <<>> THEN "poll" ELSE "while_logging"
    /\ UNCHANGED <<cvars, qvars, processes, living_children, reaction_index,
                   reactions, metadata, committed, report, dequeued, takers,
                   tvars>>

\* ... not logging_queue.empty()):
LoopTestLogging ==
    /\ c_pc = "while_logging"
    /\ c_pc' = IF logging_queue # <<>> THEN "poll" ELSE "metadata"
    /\ UNCHANGED <<cvars, qvars, processes, living_children, reaction_index,
                   reactions, metadata, committed, report, dequeued, takers,
                   tvars>>

\* the poll taken out of the loop: living_children keeps its value
PollChildrenHoisted ==
    /\ c_pc = "poll"
    /\ c_pc' = "reactions"
    /\ UNCHANGED <<cvars, qvars, processes, living_children, reaction_index,
                   reactions, metadata, committed, report, dequeued, takers,
                   tvars>>

\* living_children = list_or(living_bools)
PollChildren ==
    /\ c_pc = "poll"
    /\ living_children' = list_or(living_bools)
    /\ c_pc' = "reactions"
    /\ UNCHANGED <<cvars, qvars, processes, reaction_index, reactions,
                   metadata, committed, report, dequeued, takers, tvars>>

\* the insert without reaction_index += 1
InsertReactionNoIncrement ==
    /\ c_pc = "reactions"
    /\ reaction_queue # <<>>
    /\ HasKeys(Head(reaction_queue))
    /\ reaction_queue' = Tail(reaction_queue)
    /\ dequeued' = Append(dequeued, Head(reaction_queue))
    /\ reactions' = Append(reactions,
                           ReactionRow(reaction_index, Head(reaction_queue)))
    /\ c_pc' = "logging"
    /\ UNCHANGED <<cvars, table_queue, logging_queue, processes,
                   living_children, reaction_index, metadata, committed,
                   report, takers, tvars>>

\* the insert with a commit after every row
InsertReactionCommitEach ==
    /\ c_pc = "reactions"
    /\ reaction_queue # <<>>
    /\ HasKeys(Head(reaction_queue))
    /\ reaction_queue' = Tail(reaction_queue)
    /\ dequeued' = Append(dequeued, Head(reaction_queue))
    /\ reactions' = Append(reactions,
                           ReactionRow(reaction_index, Head(reaction_queue)))
    /\ reaction_index' = reaction_index + 1
    /\ committed' = Len(reactions) + 1
    /\ c_pc' = "logging"
    /\ UNCHANGED <<cvars, table_queue, logging_queue, processes,
                   living_children, metadata, report, takers, tvars>>

\* if not reaction_queue.empty(): get, insert, count, commit
InsertReaction ==
    /\ c_pc = "reactions"
    /\ reaction_queue # <<>>
    /\ HasKeys(Head(reaction_queue))
    /\ reaction_queue' = Tail(reaction_queue)
    /\ dequeued' = Append(dequeued, Head(reaction_queue))
    /\ reactions' = Append(reactions,
                           ReactionRow(reaction_index, Head(reaction_queue)))
    /\ reaction_index' = reaction_index + 1
    /\ committed' = IF (reaction_index + 1) % commit_freq = 0
                    THEN Len(reactions) + 1 ELSE committed
    /\ c_pc' = "logging"
    /\ UNCHANGED <<cvars, table_queue, logging_queue, processes,
                   living_children, metadata, report, takers, tvars>>

\* the record taken from the queue has no rate or no dG: building the
\* parameters of the insert raises KeyError and the dispatcher dies
InsertFails ==
    /\ c_pc = "reactions"
    /\ reaction_queue # <<>>
    /\ ~HasKeys(Head(reaction_queue))
    /\ reaction_queue' = Tail(reaction_queue)
    /\ dequeued' = Append(dequeued, Head(reaction_queue))
    /\ c_pc' = "fatal"
    /\ UNCHANGED <<cvars, table_queue, logging_queue, processes,
                   living_children, reaction_index, reactions, metadata,
                   committed, report, takers, tvars>>

\* reaction_queue.empty() holds
NoReactionWaiting ==
    /\ c_pc = "reactions"
    /\ reaction_queue = <<>>
    /\ c_pc' = "logging"
    /\ UNCHANGED <<cvars, qvars, processes, living_children, reaction_index,
                   reactions, metadata, committed, report, dequeued, takers,
                   tvars>>

\* the three emits with the reaction ahead of its decision path
EmitLogReactionFirst ==
    /\ c_pc = "logging"
    /\ logging_queue # <<>>
    /\ logging_queue' = Tail(logging_queue)
    /\ report' = report \o
          <<[emit |-> "reaction",
             decision_path |-> <<>>,
             reaction |-> Head(logging_queue).reaction],
            [emit |-> "verbatim",
             decision_path |-> Head(logging_queue).decision_path,
             reaction |-> NoReaction],
            [emit |-> "newline",
             decision_path |-> <<>>,
             reaction |-> NoReaction]>>
    /\ c_pc' = "while"
    /\ UNCHANGED <<cvars, table_queue, reaction_queue, processes,
                   living_children, reaction_index, reactions, metadata,
                   committed, dequeued, takers, tvars>>

\* if not logging_queue.empty(): get, emit_verbatim, emit_reaction,
\* emit_newline
EmitLog ==
    /\ c_pc = "logging"
    /\ logging_queue # <<>>
    /\ logging_queue' = Tail(logging_queue)
    /\ report' = report \o
          <<[emit |-> "verbatim",
             decision_path |-> Head(logging_queue).decision_path,
             reaction |-> NoReaction],
            [emit |-> "reaction",
             decision_path |-> <<>>,
             reaction |-> Head(logging_queue).reaction],
            [emit |-> "newline",
             decision_path |-> <<>>,
             reaction |-> NoReaction]>>
    /\ c_pc' = "while"
    /\ UNCHANGED <<cvars, table_queue, reaction_queue, processes,
                   living_children, reaction_index, reactions, metadata,
                   committed, dequeued, takers, tvars>>

\* logging_queue.empty() holds
NoLogWaiting ==
    /\ c_pc = "logging"
    /\ logging_queue = <<>>
    /\ c_pc' = "while"
    /\ UNCHANGED <<cvars, qvars, processes, living_children, reaction_index,
                   reactions, metadata, committed, report, dequeued, takers,
                   tvars>>

\* rn_cur.execute(insert_metadata, ...)
WriteMetadata ==
    /\ c_pc = "metadata"
    /\ metadata' = Append(metadata, MetadataRow(reaction_index))
    /\ c_pc' = "finished"
    /\ UNCHANGED <<cvars, qvars, processes, living_children, reaction_index,
                   reactions, committed, report, dequeued, takers, tvars>>

\* report_generator.finished(); rn_con.commit(); the connections are closed
Finish ==
    /\ c_pc = "finished"
    /\ report' = Append(report, [emit |-> "finished",
                                 decision_path |-> <<>>,
                                 reaction |-> NoReaction])
    /\ committed' = Len(reactions)
    /\ c_pc' = "done"
    /\ UNCHANGED <<cvars, qvars, processes, living_children, reaction_index,
                   reactions, metadata, dequeued, takers, tvars>>

DispatcherNext ==
    \/ LoopTestLiving
    \/ LoopTestReactions
    \/ LoopTestLogging
    \/ PollChildren
    \/ InsertReaction
    \/ InsertFails
    \/ NoReactionWaiting
    \/ EmitLog
    \/ NoLogWaiting
    \/ WriteMetadata
    \/ Finish

----------------------------------------------------------------------------
(* The run of dispatcher, from the moment the workers have been started *)

NoEvaluation ==
    /\ t_pc = "idle"
    /\ t_tree = NoneNode
    /\ t_reaction = NoReaction
    /\ t_out = LeaveLoop(NoneNode, NoReaction, <<>>, <<>>)

Init ==
    /\ number_of_processes \in 1..MaxProcs
    /\ decision_tree \in FilterTrees
    /\ logging_decision_tree \in LoggingTrees
    /\ bucket_db \in {BucketDB(n) : n \in 0..MaxBuckets}
    /\ table_queue = [k \in 1..Len(bucket_db) |-> k]
    /\ reaction_queue = <<>>
    /\ logging_queue = <<>>
    /\ processes = [p \in Pids |-> Idle("empty")]
    /\ c_pc = "while"
    /\ living_children = TRUE
    /\ reaction_index = 0
    /\ reactions = <<>>
    /\ metadata = <<>>
    /\ committed = 0
    /\ report = <<>>
    /\ dequeued = <<>>
    /\ takers = [k \in 1..Len(bucket_db) |-> <<>>]
    /\ NoEvaluation

Next ==
    \/ DispatcherNext
    \/ \E p \in Pids : WorkerNext(p)
    \/ \E p \in Pids : Crash(p)

Spec == Init /\ [][Next]_vars

\* The operating system schedules every process again and again, and a get
\* on a queue that holds a bucket cannot run out of time for ever.
Fairness ==
    /\ WF_vars(DispatcherNext)
    /\ \A p \in 0..(MaxProcs - 1) : WF_vars(p \in Pids /\ WorkerNext(p))
    /\ \A p \in 0..(MaxProcs - 1) : SF_vars(p \in Pids /\ GetTable(p))

FairSpec == Spec /\ Fairness

----------------------------------------------------------------------------
(* One reaction_filter process on its own: the queues keep what it puts *)

\* the largest bucket
MaxRows == 3

\* the rows of a bucket in their row order, free energies -1.0, -0.3, 0.0,
\* -0.3 and -1.0 + 0.0
BucketRows == <<Rows[1], Rows[2], Rows[5], Rows[3], Rows[4]>>

FirstRows(n) == [k \in 1..n |-> BucketRows[k]]

\* a bucket of rows of two species each, with the same sum of free energies
TwoSpeciesRows == <<Rows[6], Rows[7]>>

FilterDBs ==
    {<<FirstRows(n)>> : n \in 0..MaxRows}
    \cup {<<FirstRows(1), FirstRows(2)>>, <<TwoSpeciesRows>>}

FilterInit ==
    /\ number_of_processes = 1
    /\ decision_tree \in {standard_decision_tree, mapped_tree, keep_all_tree,
                          discard_all_tree}
    /\ logging_decision_tree \in {KEEP, DISCARD, log_band_tree, log_mapped_tree}
    /\ bucket_db \in FilterDBs
    /\ table_queue = [k \in 1..Len(bucket_db) |-> k]
    /\ reaction_queue = <<>>
    /\ logging_queue = <<>>
    /\ processes = [p \in Pids |-> Idle("empty")]
    /\ c_pc = "idle"
    /\ living_children = TRUE
    /\ reaction_index = 0
    /\ reactions = <<>>
    /\ metadata = <<>>
    /\ committed = 0
    /\ report = <<>>
    /\ dequeued = <<>>
    /\ takers = [k \in 1..Len(bucket_db) |-> <<>>]
    /\ NoEvaluation

FilterNext == \E p \in Pids : WorkerNext(p)

FilterSpec == FilterInit /\ [][FilterNext]_vars

\* a bucket row that is no pair of species slots: a table with a third column
MalformedRow == <<1, NoSpecies, 2>>

\* a bucket store with such a row between two rows that are pairs
MalformedDBs == {<<<<Rows[1], MalformedRow, Rows[2]>>>>, <<<<MalformedRow>>, <<Rows[1], Rows[2]>>>>}

\* the worker on a bucket store with a malformed row
MalformedInit ==
    /\ number_of_processes = 1
    /\ decision_tree \in {standard_decision_tree, mapped_tree, keep_all_tree,
                          discard_all_tree}
    /\ logging_decision_tree \in {KEEP, DISCARD, log_band_tree, log_mapped_tree}
    /\ bucket_db \in MalformedDBs
    /\ table_queue = [k \in 1..Len(bucket_db) |-> k]
    /\ reaction_queue = <<>>
    /\ logging_queue = <<>>
    /\ processes = [p \in Pids |-> Idle("empty")]
    /\ c_pc = "idle"
    /\ living_children = TRUE
    /\ reaction_index = 0
    /\ reactions = <<>>
    /\ metadata = <<>>
    /\ committed = 0
    /\ report = <<>>
    /\ dequeued = <<>>
    /\ takers = [k \in 1..Len(bucket_db) |-> <<>>]
    /\ NoEvaluation

MalformedSpec == MalformedInit /\ [][FilterNext]_vars

----------------------------------------------------------------------------
(* reaction_gen.py: the dispatcher and the worker with two queues and no   *)
(* logging.  The worker's get has no timeout; the dispatcher's loop looks  *)
(* at living_children only.                                                *)

\* the reverse record of reaction_gen.py, which has no key 'reverse'
GenReverse(reaction) ==
    [reactants           |-> reaction.products,
     products            |-> reaction.reactants,
     number_of_reactants |-> reaction.number_of_products,
     number_of_products  |-> reaction.number_of_reactants,
     dG                  |-> <<>>,
     rate                |-> <<>>,
     atom_map            |-> <<>>,
     reverse             |-> <<>>]

\* the worker at the combination (i, j) of its bucket
GenAtCombination(table, i, j) ==
    [Idle("filter_forward") EXCEPT
        !.table = table,
        !.i = i,
        !.j = j,
        !.reaction = MakeReaction(bucket_db[table][i], bucket_db[table][j]),
        !.reverse_reaction =
            GenReverse(MakeReaction(bucket_db[table][i], bucket_db[table][j]))]

\* the worker after the combination (i, j)
GenAfterCombination(table, i, j) ==
    LET n == Len(bucket_db[table])
    IN  IF j < n THEN GenAtCombination(table, i, j + 1)
        ELSE IF i + 1 < n THEN GenAtCombination(table, i + 1, i + 2)
        ELSE Idle("empty")

\* while not table_queue.empty()
GenCheckEmpty(p) ==
    /\ processes[p].pc = "empty"
    /\ processes' = [processes EXCEPT ![p].pc =
                        IF table_queue = <<>> THEN "exited" ELSE "get"]
    /\ UNCHANGED <<cvars, qvars, dvars, takers, tvars>>

\* table = table_queue.get(): the call returns when there is a name to
\* take and waits as long as there is none
GenGetTable(p) ==
    /\ processes[p].pc = "get"
    /\ table_queue # <<>>
    /\ processes' = [processes EXCEPT ![p] =
                        IF Len(bucket_db[Head(table_queue)]) >= 2
                        THEN GenAtCombination(Head(table_queue), 1, 2)
                        ELSE Idle("empty")]
    /\ table_queue' = Tail(table_queue)
    /\ takers' = [takers EXCEPT ![Head(table_queue)] = Append(@, p)]
    /\ UNCHANGED <<cvars, reaction_queue, logging_queue, dvars, tvars>>

\* if run_decision_tree(reaction, ...): reaction_queue.put(reaction)
GenFilterForward(p) ==
    /\ processes[p].pc = "filter_forward"
    /\ \E out \in {run_decision_tree(processes[p].reaction, decision_tree)} :
           IF out.outcome = "raise"
           THEN /\ processes' = [processes EXCEPT ![p] = Idle("raised")]
                /\ UNCHANGED reaction_queue
           ELSE /\ processes' = [processes EXCEPT
                       ![p].pc = "filter_reverse",
                       ![p].reaction = out.reaction]
                /\ reaction_queue' = IF out.outcome = "True"
                                     THEN Append(reaction_queue, out.reaction)
                                     ELSE reaction_queue
    /\ UNCHANGED <<cvars, table_queue, logging_queue, dvars, takers, tvars>>

\* if run_decision_tree(reverse_reaction, ...):
\*     reaction_queue.put(reverse_reaction)
\* and on to the next combination, or to the next bucket
GenFilterReverse(p) ==
    /\ processes[p].pc = "filter_reverse"
    /\ \E out \in {run_decision_tree(processes[p].reverse_reaction, decision_tree)} :
           IF out.outcome = "raise"
           THEN /\ processes' = [processes EXCEPT ![p] = Idle("raised")]
                /\ UNCHANGED reaction_queue
           ELSE /\ processes' = [processes EXCEPT ![p] =
                       GenAfterCombination(processes[p].table, processes[p].i,
                                           processes[p].j)]
                /\ reaction_queue' = IF out.outcome = "True"
                                     THEN Append(reaction_queue, out.reaction)
                                     ELSE reaction_queue
    /\ UNCHANGED <<cvars, table_queue, logging_queue, dvars, takers, tvars>>

GenWorkerNext(p) ==
    \/ GenCheckEmpty(p)
    \/ GenGetTable(p)
    \/ GenFilterForward(p)
    \/ GenFilterReverse(p)

\* while living_children
GenLoopTest ==
    /\ c_pc = "while"
    /\ c_pc' = IF living_children THEN "reactions" ELSE "metadata"
    /\ UNCHANGED <<cvars, qvars, processes, living_children, reaction_index,
                   reactions, metadata, committed, report, dequeued, takers,
                   tvars>>

\* if reaction_queue.empty(): the queue is seen empty
GenNoReactionWaiting ==
    /\ c_pc = "reactions"
    /\ reaction_queue = <<>>
    /\ c_pc' = "poll"
    /\ UNCHANGED <<cvars, qvars, processes, living_children, reaction_index,
                   reactions, metadata, committed, report, dequeued, takers,
                   tvars>>

\* living_bools = [processes[pid].is_alive() for pid in processes]
\* living_children = list_or(living_bools)
GenPollChildren ==
    /\ c_pc = "poll"
    /\ living_children' = list_or(living_bools)
    /\ c_pc' = "while"
    /\ UNCHANGED <<cvars, qvars, processes, reaction_index, reactions,
                   metadata, committed, report, dequeued, takers, tvars>>

\* else: reaction = reaction_queue.get(); insert; reaction_index += 1;
\* commit every commit_freq inserts
GenInsertReaction ==
    /\ c_pc = "reactions"
    /\ reaction_queue # <<>>
    /\ HasKeys(Head(reaction_queue))
    /\ reaction_queue' = Tail(reaction_queue)
    /\ dequeued' = Append(dequeued, Head(reaction_queue))
    /\ reactions' = Append(reactions,
                           ReactionRow(reaction_index, Head(reaction_queue)))
    /\ reaction_index' = reaction_index + 1
    /\ committed' = IF (reaction_index + 1) % commit_freq = 0
                    THEN Len(reactions) + 1 ELSE committed
    /\ c_pc' = "while"
    /\ UNCHANGED <<cvars, table_queue, logging_queue, processes,
                   living_children, metadata, report, takers, tvars>>

\* the record taken has no rate or no dG: KeyError, the dispatcher dies
GenInsertFails ==
    /\ c_pc = "reactions"
    /\ reaction_queue # <<>>
    /\ ~HasKeys(Head(reaction_queue))
    /\ reaction_queue' = Tail(reaction_queue)
    /\ dequeued' = Append(dequeued, Head(reaction_queue))
    /\ c_pc' = "fatal"
    /\ UNCHANGED <<cvars, table_queue, logging_queue, processes,
                   living_children, reaction_index, reactions, metadata,
                   committed, report, takers, tvars>>

\* rn_cur.execute(insert_metadata, (len(mol_entries) + 1,
\* reaction_index + 1)); rn_con.commit(); the connections are closed
GenWriteMetadata ==
    /\ c_pc = "metadata"
    /\ metadata' = Append(metadata,
                          [number_of_species   |-> Len(mol_entries) + 1,
                           number_of_reactions |-> reaction_index + 1])
    /\ committed' = Len(reactions)
    /\ c_pc' = "done"
    /\ UNCHANGED <<cvars, qvars, processes, living_children, reaction_index,
                   reactions, report, dequeued, takers, tvars>>

GenDispatcherNext ==
    \/ GenLoopTest
    \/ GenNoReactionWaiting
    \/ GenPollChildren
    \/ GenInsertReaction
    \/ GenInsertFails
    \/ GenWriteMetadata

GenTrees == {standard_decision_tree, keep_all_tree, discard_all_tree}

GenInit ==
    /\ number_of_processes \in 1..MaxProcs
    /\ decision_tree \in GenTrees
    /\ logging_decision_tree = NoneNode
    /\ bucket_db \in {BucketDB(n) : n \in 0..MaxBuckets}
    /\ table_queue = [k \in 1..Len(bucket_db) |-> k]
    /\ reaction_queue = <<>>
    /\ logging_queue = <<>>
    /\ processes = [p \in Pids |-> Idle("empty")]
    /\ c_pc = "while"
    /\ living_children = TRUE
    /\ reaction_index = 0
    /\ reactions = <<>>
    /\ metadata = <<>>
    /\ committed = 0
    /\ report = <<>>
    /\ dequeued = <<>>
    /\ takers = [k \in 1..Len(bucket_db) |-> <<>>]
    /\ NoEvaluation

GenNext ==
    \/ GenDispatcherNext
    \/ \E p \in Pids : GenWorkerNext(p)

GenSpec == GenInit /\ [][GenNext]_vars

\* every process is scheduled again and again
GenFairness ==
    /\ WF_vars(GenDispatcherNext)
    /\ \A p \in 0..(MaxProcs - 1) : WF_vars(p \in Pids /\ GenWorkerNext(p))

GenFairSpec == GenSpec /\ GenFairness

----------------------------------------------------------------------------
(* One call of run_decision_tree on its own *)

\* the reactions a worker builds from two rows, forward and reverse
BuiltReactions ==
    {MakeReaction(Rows[a], Rows[b]) :
        a \in 1..Len(Rows), b \in 1..Len(Rows)} \ {MakeReaction(Rows[a], Rows[a]) : a \in 1..Len(Rows)}

Trees == {standard_decision_tree, nested_tree, partial_tree,
          partial_inner_tree, discard_all_tree, keep_all_tree, lenient_tree,
          KEEP, DISCARD}

NoRun ==
    /\ number_of_processes = 0
    /\ decision_tree = NoneNode
    /\ logging_decision_tree = NoneNode
    /\ bucket_db = <<>>
    /\ table_queue = <<>>
    /\ reaction_queue = <<>>
    /\ logging_queue = <<>>
    /\ processes = <<>>
    /\ c_pc = "idle"
    /\ living_children = FALSE
    /\ reaction_index = 0
    /\ reactions = <<>>
    /\ metadata = <<>>
    /\ committed = 0
    /\ report = <<>>
    /\ dequeued = <<>>
    /\ takers = <<>>

TreeInit ==
    /\ NoRun
    /\ t_pc = "call"
    /\ t_tree \in Trees
    /\ t_reaction \in BuiltReactions
    /\ t_out = LeaveLoop(NoneNode, NoReaction, <<>>, <<>>)

Evaluate ==
    /\ t_pc = "call"
    /\ t_out' = run_decision_tree(t_reaction, t_tree)
    /\ t_pc' = "returned"
    /\ UNCHANGED <<cvars, qvars, processes, dvars, takers, t_tree, t_reaction>>

TreeNext == Evaluate

TreeSpec == TreeInit /\ [][TreeNext]_vars


----------------------------------------------------------------------------
(* Properties of the run of dispatcher *)

Died(p) == processes[p].pc \in {"raised", "crashed"}
NoWorkerDied == \A p \in Pids : ~Died(p)
NoWorkerAlive == \A p \in Pids : ~Alive(p)

\* the keys of a record that the insert reads
Columns(reaction) ==
    [reactants           |-> reaction.reactants,
     products            |-> reaction.products,
     number_of_reactants |-> reaction.number_of_reactants,
     number_of_products  |-> reaction.number_of_products,
     dG                  |-> reaction.dG,
     rate                |-> reaction.rate]

\* the keys a row of the reactions table was made from
RecordOfRow(row) ==
    [reactants           |-> <<row.reactant_1, row.reactant_2>>,
     products            |-> <<row.product_1, row.product_2>>,
     number_of_reactants |-> row.number_of_reactants,
     number_of_products  |-> row.number_of_products,
     dG                  |-> <<row.dG>>,
     rate                |-> <<row.rate>>]

\* The single-threaded reference run: every combination i < j of every
\* bucket, forward ("f") and reverse ("r")
Candidates ==
    {<<k, i, j, d>> \in (1..Len(bucket_db)) \X (1..Len(Rows)) \X (1..Len(Rows))
                        \X {"f", "r"} :
        i < j /\ j <= Len(bucket_db[k])}

CandidateRecord(c) ==
    LET forward == MakeReaction(bucket_db[c[1]][c[2]], bucket_db[c[1]][c[3]])
    IN  IF c[4] = "f" THEN Link(forward, MakeReverse(forward))
        ELSE MakeReverse(forward)

ReferenceKept ==
    {c \in Candidates :
        run_decision_tree(CandidateRecord(c), decision_tree).outcome = "True"}

ReferenceRecord(c) ==
    run_decision_tree(CandidateRecord(c), decision_tree).reaction

\* C1: when the dispatcher has left its main loop, no worker is alive and
\* the reaction queue and the logging queue are both empty.
C1_LoopExit ==
    c_pc = "metadata" =>
        /\ NoWorkerAlive
        /\ reaction_queue = <<>>
        /\ logging_queue = <<>>

C1_Witness ==
    /\ c_pc = "metadata"
    /\ number_of_processes = 2
    /\ Len(reactions) = 3
    /\ report # <<>>
    /\ \A k \in 1..Len(takers) : Len(takers[k]) = 1
    /\ takers[1] # takers[2]

C3_DenseIds ==
    /\ Len(reactions) = reaction_index
    /\ \A k \in 1..Len(reactions) :
          /\ reactions[k].reaction_id = k - 1
          /\ RecordOfRow(reactions[k]) = Columns(dequeued[k])
    /\ Len(dequeued) = Len(reactions) + (IF c_pc = "fatal" THEN 1 ELSE 0)

C3_Witness ==
    /\ Len(reactions) = 3
    /\ reactions[3].reaction_id = 2
    /\ reactions[1].dG # reactions[3].dG

\* C4: a completed run has written exactly one metadata row, with
\* number_of_reactions = rows of the reactions table + 1 and
\* number_of_species = number of species + 1; there is never more than one
\* metadata row, and once it is written no reaction is inserted.
C4_Metadata ==
    /\ [](Len(metadata) <= 1)
    /\ [](c_pc = "done" =>
            /\ Len(metadata) = 1
            /\ metadata[1].number_of_reactions = Len(reactions) + 1
            /\ metadata[1].number_of_species = Len(mol_entries) + 1)
    /\ [][metadata # <<>> => (reactions' = reactions /\ metadata' = metadata)]_vars

C4_Witness ==
    /\ c_pc = "done"
    /\ Len(reactions) = 3
    /\ metadata = <<[number_of_species |-> 5, number_of_reactions |-> 4]>>


\* the run has come to its end: every worker has returned, the queues are
\* drained and the metadata row is written
Terminated ==
    /\ c_pc = "done"
    /\ \A p \in Pids : processes[p].pc = "exited"
    /\ table_queue = <<>>
    /\ reaction_queue = <<>>
    /\ logging_queue = <<>>
    /\ Len(metadata) = 1

NoProcessDied == NoWorkerDied /\ c_pc # "fatal"

\* C5: with no table in the bucket database, no worker ever takes a bucket
\* (each goes from its emptiness test straight to its exit), no reaction is
\* inserted, and the dispatcher comes to its end with a metadata row whose
\* number_of_reactions is 1.
C5_EmptyStart ==
    /\ [](bucket_db = <<>> =>
            /\ \A p \in Pids : processes[p].pc \in {"empty", "exited"}
            /\ reactions = <<>>
            /\ (c_pc = "done" =>
                    /\ Len(metadata) = 1
                    /\ metadata[1].number_of_reactions = 1))
    /\ (bucket_db = <<>> ~> Terminated)

C5_Witness ==
    /\ bucket_db = <<>>
    /\ number_of_processes = 2
    /\ Terminated
    /\ metadata[1].number_of_reactions = 1

\* C6: under fairness, a run in which no process dies comes to its end:
\* every worker returns, the queues are drained, the metadata row is written.
C6_Terminates == ([]NoProcessDied) => <>Terminated

C6_Witness ==
    /\ Terminated
    /\ NoProcessDied
    /\ number_of_processes = 2
    /\ Len(bucket_db) = 2
    /\ Len(reactions) = 3
    /\ takers[1] # takers[2]

\* C8: when a worker has met a node of the filter tree none of whose
\* questions answers true, the reaction store gets no metadata row.
C8_AbortsWithoutMetadata ==
    (\E p \in Pids : processes[p].pc = "raised") => metadata = <<>>

\* the buckets taken by a worker that did not die
SafeBuckets ==
    {k \in 1..Len(bucket_db) : takers[k] # <<>> /\ ~Died(takers[k][1])}

SomeCrashed == \E p \in Pids : processes[p].pc = "crashed"

\* C9: after a worker has died abnormally on a bucket, (a) no bucket is ever
\* taken twice, so the dead worker's bucket is not processed again; (b) the
\* dispatcher still comes to its end and writes the metadata row (unless it
\* dies itself); (c) at the end the table holds the rows of the reference
\* run for the buckets taken by the workers that did not die, and beyond
\* them only rows of that run; and (d) if some worker returned, no bucket is
\* left in the queue.
C9_WorkerCrash ==
    /\ [](\A k \in 1..Len(takers) : Len(takers[k]) <= 1)
    /\ (SomeCrashed ~> ((c_pc = "done" /\ Len(metadata) = 1) \/ c_pc = "fatal"))
    /\ []((c_pc = "done" /\ SomeCrashed) =>
            /\ \A c \in {e \in ReferenceKept : e[1] \in SafeBuckets} :
                  \E n \in 1..Len(reactions) :
                      RecordOfRow(reactions[n]) = Columns(ReferenceRecord(c))
            /\ \A n \in 1..Len(reactions) :
                  \E c \in ReferenceKept :
                      RecordOfRow(reactions[n]) = Columns(ReferenceRecord(c))
            /\ Len(reactions) <= Cardinality(ReferenceKept)
            /\ ((\E p \in Pids : processes[p].pc = "exited")
                    => table_queue = <<>>))

C9_Witness ==
    /\ c_pc = "done"
    /\ number_of_processes = 2
    /\ Len(bucket_db) = 2
    /\ processes[0].pc = "crashed"
    /\ processes[1].pc = "exited"
    /\ takers = << <<0>>, <<1>> >>
    /\ Len(reactions) = 2
    /\ Len(metadata) = 1

\* the dispatcher is in its main loop, or has died in it
InMainLoop ==
    c_pc \in {"while", "while_reactions", "while_logging", "poll",
              "reactions", "logging", "fatal"}

\* C14: while the dispatcher is in its main loop, and when it has died in
\* it, the rows of the reactions table that are committed are the first
\* commit_freq * floor(reaction_index / commit_freq) rows inserted; a
\* dispatcher that died in the loop has written no metadata row.
C14_Commits ==
    /\ InMainLoop =>
          /\ committed = commit_freq * (reaction_index \div commit_freq)
          /\ committed <= Len(reactions)
          /\ metadata = <<>>
    /\ c_pc = "fatal" => metadata = <<>>

C14_Witness ==
    /\ c_pc = "fatal"
    /\ reaction_index = commit_freq
    /\ committed = commit_freq
    /\ Len(reactions) = commit_freq
    /\ reaction_queue # <<>>

\* C15: every record the dispatcher takes from the reaction queue has dG
\* and rate, whatever the filter tree.
C15_Defined ==
    \A k \in 1..Len(dequeued) : HasKeys(dequeued[k])

----------------------------------------------------------------------------
(* Properties of reaction_filter *)

\* two records that are each other's reverse
Paired(a, b) == a.reactants = b.products /\ a.products = b.reactants

Computed(reaction) == reaction.atom_map = <<"computed">>

\* C11: the two records of a combination refer to each other before the
\* first tree is evaluated, and of the two at most one has had its atom
\* mapping computed, whichever trees were evaluated on them: in the worker
\* while it is at the combination, and in what it has put on the logging
\* queue.
C11_MapOnce ==
    /\ \A p \in Pids :
          LET w == processes[p]
          IN  /\ w.pc = "filter_forward" =>
                    /\ w.reaction.reverse = << <<>> >>
                    /\ w.reverse_reaction.reverse = << <<>> >>
                    /\ w.reaction.atom_map = <<>>
                    /\ w.reverse_reaction.atom_map = <<>>
              /\ ~(Computed(w.reaction) /\ Computed(w.reverse_reaction))
    /\ \A m, n \in 1..Len(logging_queue) :
          Paired(logging_queue[m].reaction, logging_queue[n].reaction) =>
              ~(Computed(logging_queue[m].reaction)
                /\ Computed(logging_queue[n].reaction))

C11_Witness ==
    /\ processes[0].pc = "exited"
    /\ decision_tree = mapped_tree
    /\ Len(logging_queue) = 6
    /\ logging_queue[1].reaction.atom_map = <<"inverted">>
    /\ logging_queue[2].reaction.atom_map = <<"computed">>
    /\ logging_queue[5].reaction.atom_map = <<"computed">>
    /\ logging_queue[6].reaction.atom_map = <<"inverted">>

\* the same reaction: the same reactants and products
SameReaction(a, b) == a.reactants = b.reactants /\ a.products = b.products

\* the candidates the logging tree keeps, evaluated after the filter tree
ReferenceLogged ==
    {c \in Candidates :
        run_decision_tree(ReferenceRecord(c), logging_decision_tree).outcome
            = "True"}

InReactionQueue(c) ==
    \E n \in 1..Len(reaction_queue) :
        SameReaction(reaction_queue[n], CandidateRecord(c))

InLoggingQueue(c) ==
    \E n \in 1..Len(logging_queue) :
        SameReaction(logging_queue[n].reaction, CandidateRecord(c))

\* C12: what the worker puts on the reaction queue are records the filter
\* tree keeps, what it puts on the logging queue are records the logging
\* tree keeps; when it has returned, every record of its buckets is on the
\* reaction queue iff the filter tree keeps it and on the logging queue iff
\* the logging tree keeps it, once each; and with the filter tree
\* [(default_true, DISCARD)] the reaction queue stays empty whatever is logged.
C12_Independent ==
    /\ \A n \in 1..Len(reaction_queue) :
          \E c \in ReferenceKept :
              SameReaction(reaction_queue[n], CandidateRecord(c))
    /\ \A n \in 1..Len(logging_queue) :
          \E c \in ReferenceLogged :
              SameReaction(logging_queue[n].reaction, CandidateRecord(c))
    /\ (\A p \in Pids : processes[p].pc = "exited") =>
          /\ \A c \in Candidates :
                /\ InReactionQueue(c) <=> c \in ReferenceKept
                /\ InLoggingQueue(c) <=> c \in ReferenceLogged
          /\ Len(reaction_queue) = Cardinality(ReferenceKept)
          /\ Len(logging_queue) = Cardinality(ReferenceLogged)
    /\ decision_tree = discard_all_tree => reaction_queue = <<>>

\* all four outcomes in one run
C12_Witness ==
    /\ processes[0].pc = "exited"
    /\ decision_tree = standard_decision_tree
    /\ logging_decision_tree = log_band_tree
    /\ \E c \in Candidates : InReactionQueue(c) /\ InLoggingQueue(c)
    /\ \E c \in Candidates : InReactionQueue(c) /\ ~InLoggingQueue(c)
    /\ \E c \in Candidates : ~InReactionQueue(c) /\ InLoggingQueue(c)
    /\ \E c \in Candidates : ~InReactionQueue(c) /\ ~InLoggingQueue(c)

\* C13: a record on the reaction queue has, in the keys the dispatcher
\* reads, the values it had when the worker put it there, whatever the
\* worker has evaluated on it or on its paired record since.
C13_Frozen ==
    \A p \in Pids :
        \A put \in {processes[p].put_forward, processes[p].put_reverse} :
            InFlight(put) =>
                Columns(reaction_queue[put[1].seq - Len(dequeued)])
                    = Columns(put[1].record)

\* the worker has evaluated the standard tree on both records of a
\* combination and has kept the forward one
ForwardKept(p) ==
    /\ decision_tree = standard_decision_tree
    /\ processes[p].pc = "log_forward"
    /\ processes[p].put_forward # <<>>

ReverseKept(p) == processes[p].put_reverse # <<>>

\* C17: under the standard tree, when the forward record is kept with
\* free-energy change d, the reverse record is discarded or kept with
\* dG = -d exactly.
C17_ExactNegation ==
    \A p \in Pids :
        (ForwardKept(p) /\ ReverseKept(p)) =>
            processes[p].reverse_reaction.dG[1] = - processes[p].reaction.dG[1]

\* the names of the buckets that wait in the bucket queue
Waiting == {table_queue[k] : k \in 1..Len(table_queue)}

AllExited == \A p \in Pids : processes[p].pc = "exited"

\* C19: every bucket put on the bucket queue at startup is taken by at most
\* one worker, it waits in the queue exactly as long as no worker has taken
\* it, and when all the workers have exited normally every bucket has been
\* taken by exactly one worker and the queue is empty.
C19_TakenOnce ==
    /\ \A k \in 1..Len(bucket_db) :
          /\ Len(takers[k]) <= 1
          /\ (k \in Waiting) <=> (takers[k] = <<>>)
    /\ AllExited =>
          /\ table_queue = <<>>
          /\ \A k \in 1..Len(bucket_db) : Len(takers[k]) = 1

C19_Witness ==
    /\ number_of_processes = 2
    /\ Len(bucket_db) = 2
    /\ AllExited
    /\ takers[1] = <<1>>
    /\ takers[2] = <<0>>

\* the pairs of row positions of a bucket of n rows
PositionPairs(n) == {pair \in (1..n) \X (1..n) : pair[1] < pair[2]}

\* the place of a pair among them in lexicographic order
Rank(n, pair) ==
    1 + Cardinality({q \in PositionPairs(n) :
                        \/ q[1] < pair[1]
                        \/ (q[1] = pair[1] /\ q[2] < pair[2])})

\* the worker has gone through the whole of its only bucket
BucketDone(p) ==
    /\ takers[1] = <<p>>
    /\ processes[p].pc \in {"empty", "recheck", "get", "exited"}

\* C20: with a logging tree that keeps every record the log channel shows
\* what the worker examined.  For a bucket of n rows these are the
\* n(n-1)/2 pairs of positions i < j in lexicographic order, each once,
\* row i as the reactants and row j as the products of the forward record,
\* followed by its reverse; a bucket of one row or none gives no reaction.
C20_Combinations ==
    (Len(bucket_db) = 1 /\ logging_decision_tree = KEEP) =>
        LET bucket == bucket_db[1]
            n == Len(bucket)
        IN  /\ Len(logging_queue) <= n * (n - 1)
            /\ Len(reaction_queue) <= n * (n - 1)
            /\ \A pair \in PositionPairs(n) :
                  LET k == 2 * Rank(n, pair)
                  IN  /\ k - 1 <= Len(logging_queue) =>
                            /\ logging_queue[k - 1].reaction.reactants
                                   = bucket[pair[1]]
                            /\ logging_queue[k - 1].reaction.products
                                   = bucket[pair[2]]
                      /\ k <= Len(logging_queue) =>
                            /\ logging_queue[k].reaction.reactants
                                   = bucket[pair[2]]
                            /\ logging_queue[k].reaction.products
                                   = bucket[pair[1]]
            /\ \A p \in Pids :
                  BucketDone(p) => Len(logging_queue) = n * (n - 1)

C20_Witness ==
    /\ Len(bucket_db) = 1
    /\ Len(bucket_db[1]) = MaxRows
    /\ logging_decision_tree = KEEP
    /\ BucketDone(0)
    /\ Len(logging_queue) = MaxRows * (MaxRows - 1)
    /\ Len(reaction_queue) > 0

\* the worker is at a combination of its bucket
AtPair(p) ==
    processes[p].pc \in {"filter_forward", "filter_reverse",
                         "log_forward", "log_reverse"}

\* the number of entries of a slot that are not the sentinel -1
NonSentinel(slot) ==
    (IF slot[1] # -1 THEN 1 ELSE 0) + (IF slot[2] # -1 THEN 1 ELSE 0)

C18_DoubleCheck ==
    [][\A p \in Pids :
          (processes[p].pc # "exited" /\ processes'[p].pc = "exited")
              => processes[p].pc = "recheck"]_vars

----------------------------------------------------------------------------
(* Properties of run_decision_tree *)

\* the deepest tree and the longest list the properties below look at
MaxDepth == 2
MaxWidth == 3

Paths == UNION {[1..d -> 1..MaxWidth] : d \in 0..MaxDepth}

\* the node at the end of the edges path, from the root tree
RECURSIVE NodeAt(_, _)
NodeAt(tree, path) ==
    IF path = <<>> THEN tree
    ELSE IF tree.type = "list" /\ Head(path) \in 1..Len(tree.edges)
    THEN NodeAt(tree.edges[Head(path)].new_node, Tail(path))
    ELSE NoneNode

Answer(question, reaction) == Ask(question, reaction).answer

\* path follows, at every node, the first question that answers true
FirstTruePath(tree, reaction, path) ==
    \A n \in 1..Len(path) :
        LET node == NodeAt(tree, SubSeq(path, 1, n - 1))
        IN  /\ node.type = "list"
            /\ path[n] \in 1..Len(node.edges)
            /\ Answer(node.edges[path[n]].question, reaction)
            /\ \A m \in 1..(path[n] - 1) :
                  ~Answer(node.edges[m].question, reaction)

\* the walk from the root comes to a list node where no question answers true
DeadEnd(tree, reaction) ==
    \E path \in Paths :
        /\ FirstTruePath(tree, reaction, path)
        /\ NodeAt(tree, path).type = "list"
        /\ \A m \in 1..Len(NodeAt(tree, path).edges) :
              ~Answer(NodeAt(tree, path).edges[m].question, reaction)

\* C7: when the walk comes to a list node at which every question answers
\* false, run_decision_tree raises: it returns neither True nor False.
C7_DeadEndRaises ==
    (t_pc = "returned" /\ DeadEnd(t_tree, t_reaction)) =>
        t_out.outcome = "raise"

C7_Witness ==
    /\ t_pc = "returned"
    /\ t_tree = partial_inner_tree
    /\ DeadEnd(t_tree, t_reaction)
    /\ Len(t_out.calls) = 2
    /\ t_out.outcome = "raise"

\* C10: the questions are called from the root, in list order within a
\* node; a false answer is followed by the call of the next question of the
\* same node, a true answer by the descent to that question's child (no
\* later question of the node is called); no question of a node is called
\* twice; and the result is True iff the terminal reached is KEEP and False
\* iff it is DISCARD.
C10_WalkOrder ==
    t_pc = "returned" =>
        LET c == t_out.calls
            last == c[Len(c)]
            reached == IF c = <<>> THEN t_tree
                       ELSE NodeAt(t_tree, Append(last.node, last.index))
        IN  /\ (t_tree.type = "list" /\ t_tree.edges # <<>>) =>
                  (c # <<>> /\ c[1].node = <<>> /\ c[1].index = 1)
            /\ t_tree.type # "list" => c = <<>>
            /\ \A n \in 1..Len(c) :
                  /\ NodeAt(t_tree, c[n].node).type = "list"
                  /\ c[n].index \in 1..Len(NodeAt(t_tree, c[n].node).edges)
                  /\ c[n].answer =
                        Answer(NodeAt(t_tree, c[n].node).edges[c[n].index].question,
                               t_reaction)
            /\ \A n \in 1..(Len(c) - 1) :
                  IF c[n].answer
                  THEN /\ c[n + 1].node = Append(c[n].node, c[n].index)
                       /\ c[n + 1].index = 1
                  ELSE /\ c[n + 1].node = c[n].node
                       /\ c[n + 1].index = c[n].index + 1
            /\ \A m, n \in 1..Len(c) :
                  (c[m].node = c[n].node /\ c[m].index = c[n].index) => m = n
            /\ (c # <<>> /\ ~last.answer) =>
                  last.index = Len(NodeAt(t_tree, last.node).edges)
            /\ (c # <<>> /\ last.answer) => reached.type # "list"
            /\ t_out.outcome = "True" <=>
                  ((c = <<>> \/ last.answer) /\ reached = KEEP)
            /\ t_out.outcome = "False" <=>
                  ((c = <<>> \/ last.answer) /\ reached = DISCARD)

C10_Witness ==
    /\ t_pc = "returned"
    /\ t_tree = nested_tree
    /\ Len(t_out.calls) = 4
    /\ t_out.calls[2].answer
    /\ t_out.calls[3].node = <<2>>
    /\ t_out.outcome = "True"

Emitted == Len(report) \div 3

\* what run_decision_tree appends to decision_pathway on the way path: the
\* questions followed, then the terminal
TraceOf(tree, path) ==
    Append([n \in 1..Len(path) |->
               PathQuestion(NodeAt(tree, SubSeq(path, 1, n - 1))
                                .edges[path[n]].question)],
           PathTerminal(NodeAt(tree, path)))

\* trace is the pathway of the filter tree for the record
IsTraceOf(trace, reaction) ==
    \E path \in Paths :
        /\ FirstTruePath(decision_tree,
                         MakeReaction(reaction.reactants, reaction.products),
                         path)
        /\ NodeAt(decision_tree, path).type = "Terminal"
        /\ trace = TraceOf(decision_tree, path)

\* how often the record of candidate c has been emitted
TimesEmitted(c) ==
    Cardinality({m \in 1..Emitted :
                    SameReaction(report[3 * m - 1].reaction, CandidateRecord(c))})

\* C22: the report is a sequence of log entries, each the lines of the
\* trace, then the reaction, then a blank line, with finished() last if at
\* all; the trace of an entry is the pathway of the filter tree for its
\* record (the questions that answered true in the order of the walk, then
\* the terminal reached); no record is emitted twice, only records the
\* logging tree keeps are emitted, and when the report generator is closed
\* the logging queue is empty and, if no worker died, every record the
\* logging tree keeps has been emitted once.
C22_Report ==
    /\ Len(report) = 3 * Emitted + (IF c_pc = "done" THEN 1 ELSE 0)
    /\ c_pc = "done" => report[Len(report)].emit = "finished"
    /\ \A m \in 1..Emitted :
          /\ report[3 * m - 2].emit = "verbatim"
          /\ report[3 * m - 1].emit = "reaction"
          /\ report[3 * m].emit = "newline"
          /\ IsTraceOf(report[3 * m - 2].decision_path,
                       report[3 * m - 1].reaction)
    /\ \A c \in Candidates :
          /\ TimesEmitted(c) <= 1
          /\ TimesEmitted(c) = 1 => c \in ReferenceLogged
    /\ c_pc = "done" =>
          /\ logging_queue = <<>>
          /\ NoWorkerAlive
          /\ NoWorkerDied =>
                \A c \in ReferenceLogged : TimesEmitted(c) = 1

C22_Witness ==
    /\ c_pc = "done"
    /\ number_of_processes = 2
    /\ decision_tree = standard_decision_tree
    /\ Emitted = 3
    /\ \E m \in 1..Emitted :
          report[3 * m - 2].decision_path
              = <<PathQuestion(QdG(Threshold)), PathTerminal(DISCARD)>>
    /\ \E m \in 1..Emitted :
          report[3 * m - 2].decision_path
              = <<PathQuestion(QTrue), PathTerminal(KEEP)>>

\* the sum of the free energies of the entries of a slot other than -1
SumOfFreeEnergies(slot) ==
    (IF slot[1] # -1 THEN FreeEnergy(slot[1]) ELSE 0)
    + (IF slot[2] # -1 THEN FreeEnergy(slot[2]) ELSE 0)

\* the sum over the products minus the sum over the reactants
SumDifference(reaction) ==
    SumOfFreeEnergies(reaction.products) - SumOfFreeEnergies(reaction.reactants)

\* the trees whose root asks dG_above_threshold first and discards on true
AsksFirst(tree) ==
    /\ tree.type = "list"
    /\ tree.edges[1].question.name = "dG_above_threshold"
    /\ tree.edges[1].new_node = DISCARD
    /\ \A k \in 2..Len(tree.edges) : tree.edges[k].question = QTrue

\* C23: dG_above_threshold(T) answers true iff the sum of the free
\* energies of the products minus the sum of those of the reactants is
\* above T; it leaves the record as it was when it answers true, and when
\* it answers false it has set dG to that difference and rate to
\* default_rate(dG) and nothing else.
C23_SumDifference ==
    (t_pc = "returned" /\ AsksFirst(t_tree)) =>
        LET dG == SumDifference(t_reaction)
            T  == t_tree.edges[1].question.threshold
        IN  /\ t_out.calls[1].answer <=> dG > T
            /\ dG > T => t_out.reaction = t_reaction
            /\ ~(dG > T) =>
                  t_out.reaction = [t_reaction EXCEPT
                                       !.dG = <<dG>>,
                                       !.rate = <<default_rate(dG)>>]

\* a row read from a bucket is a pair of slots
WellFormed(row) == Len(row) = 2

UsesMalformedRow(reaction) ==
    ~WellFormed(reaction.reactants) \/ ~WellFormed(reaction.products)

\* C24: a worker skips a malformed bucket row and goes on with the other
\* rows: it never builds a record from such a row, no such record is put
\* on the reaction queue or on the logging queue, and the worker does not
\* die.
C24_SkipsMalformed ==
    /\ \A p \in Pids :
          /\ ~Died(p)
          /\ AtPair(p) => ~UsesMalformedRow(processes[p].reaction)
    /\ \A n \in 1..Len(reaction_queue) : ~UsesMalformedRow(reaction_queue[n])
    /\ \A n \in 1..Len(logging_queue) :
          ~UsesMalformedRow(logging_queue[n].reaction)

\* every record put on the reaction queue so far, in the order of the puts
PutOrder == dequeued \o reaction_queue

\* the places of the record of candidate c in a sequence of records
PlacesIn(records, c) ==
    {n \in 1..Len(records) : SameReaction(records[n], CandidateRecord(c))}

\* the reaction ids under which the record of candidate c is in the table
IdsOf(c) ==
    {reactions[n].reaction_id : n \in PlacesIn([n \in 1..Len(reactions) |->
                                                 RecordOfRow(reactions[n])], c)}

ReverseOf(c) == <<c[1], c[2], c[3], "r">>

\* C25: when the filter tree keeps the forward and the reverse record of a
\* combination, the forward is put on the reaction queue before the
\* reverse: a reverse on the queue or in the table has its forward ahead of
\* it, and in the table the forward has the smaller reaction_id.
C25_ForwardFirst ==
    \A c \in ReferenceKept :
        c[4] = "f" =>
            /\ \A n \in PlacesIn(PutOrder, ReverseOf(c)) :
                  \E m \in PlacesIn(PutOrder, c) : m < n
            /\ \A n \in IdsOf(ReverseOf(c)) :
                  \E m \in IdsOf(c) : m < n

C25_Witness ==
    /\ c_pc = "done"
    /\ number_of_processes = 2
    /\ Len(reactions) = 3
    /\ \E c \in ReferenceKept :
          /\ c[4] = "f"
          /\ IdsOf(c) = {1}
          /\ IdsOf(ReverseOf(c)) = {2}

\* C26: in reaction_gen.dispatcher the reaction queue is empty when the
\* loop has been left, so that every reaction a worker has put is in the
\* table before the metadata row is written.
C26_QueueDrained ==
    c_pc \in {"metadata", "done"} => reaction_queue = <<>>

\* C27: in reaction_gen.py, once every bucket has been taken every worker
\* eventually exits: no worker waits for ever in table_queue.get().
C27_WorkersExit == (table_queue = <<>>) ~> NoWorkerAlive

====
